---------------------------- MODULE Spec2Model ----------------------------
(***************************************************************************)
(* A model of the three scripts of the repository:                         *)
(*   src/src/rag_chat_first.py    single-turn RAG chat ([docN] citations)  *)
(*   src/src/rag_chat_session.py  conversational chat ([sourceN])          *)
(*   src/src/run_mpnet_tests.py   benchmark sweep over models x questions  *)
(*                                                                         *)
(* Python strings that the code formats (page_content, metadata sources,   *)
(* the context, the references) are sequences of one-character strings, so *)
(* that str.replace, str.strip, str.join and str() are modelled by what    *)
(* they do.  Questions and model answers are opaque texts: the code only   *)
(* passes them on, and they are TLA+ strings.                              *)
(*                                                                         *)
(* Four specifications share the module; each one holds the variables of   *)
(* the other parts at their initial value:                                 *)
(*   SpecChat   the two chat apps answering questions                      *)
(*   SpecBench  the benchmark sweep                                        *)
(*   SpecStore  starts of the scripts against one persist directory       *)
(*   SpecChunk  one call of chunking / prepare_documents                   *)
(***************************************************************************)
EXTENDS Integers, Sequences, FiniteSets, TLC

VARIABLES
    \* ---- chat apps (rag_chat_first.py, rag_chat_session.py)
    mode,          \* which app runs: "first" or "session"
    store,         \* the chunks of the opened vector store (read only)
    memory,        \* session app: the module-level ConversationBufferMemory
    state,         \* session app: gr.State, one message list per chat client
    last,          \* the last call of complete_rag / chat_with_memory
    calls,         \* number of calls handled so far
    \* ---- benchmark sweep (run_mpnet_tests.py)
    bpc,           \* position of the script
    bi,            \* index of the current model in llms_to_test (1-based)
    bj,            \* index of the next question in questions (1-based)
    chain_memory,  \* the memory of the current model's chain
    results,       \* the results list
    sent,          \* the queries the chain sent to the shared retriever
    emitted,       \* the rows written to the output file
    \* ---- vector store lifecycle (all three scripts)
    fs,            \* the persist directory: exists and its collections
    built,         \* collections some start has completely built
    proc,          \* per process: script, position, handle
    starts,        \* number of program starts so far
    \* ---- chunking
    files,         \* the files of the docs folder
    cfn,           \* the function called: "chunking" or "prepare_documents"
    cpc,           \* position of the chunking call
    cidx,          \* index of the next file of the current loop
    cdocs,         \* docs loaded so far
    csplits        \* the value returned by the call

chatVars  == <<mode, store, memory, state, last, calls>>
benchVars == <<bpc, bi, bj, chain_memory, results, sent, emitted>>
storeVars == <<fs, built, proc, starts>>
chunkVars == <<files, cfn, cpc, cidx, cdocs, csplits>>
vars      == <<chatVars, benchVars, storeVars, chunkVars>>

notChat  == <<benchVars, storeVars, chunkVars>>
notBench == <<chatVars, storeVars, chunkVars>>
notStore == <<chatVars, benchVars, chunkVars>>
notChunk == <<chatVars, benchVars, storeVars>>

---------------------------------------------------------------------------
(* Bounds of the model *)

NumChunks   == 5    \* chunks of the largest store
NumSessions == 2    \* chat clients of one running session app
MaxCalls    == 2    \* calls handled by a chat app

---------------------------------------------------------------------------
(* Python string operations on sequences of characters *)

\* The characters str.strip() removes: those for which str.isspace() holds.
\* A character is the one-character string of it; TLA+ escapes are used where
\* there is one (\t \n \f \r), and a character the lexer does not take is
\* written as its Python escape ("\\u2000").  In code point order:
\*   U+0009 U+000A U+000B U+000C U+000D U+001C U+001D U+001E U+001F U+0020
\*   U+0085 U+00A0 U+1680
\*   U+2000 .. U+200A, U+2028 U+2029 U+202F U+205F U+3000
Whitespace ==
    {"\t", "\n", "", "\f", "\r", "", "", "", "", " ",
     "", " ", " ", "\\u2000", "\\u2001", "\\u2002",
     "\\u2003", "\\u2004", "\\u2005", "\\u2006", "\\u2007", "\\u2008",
     "\\u2009", "\\u200a", "\\u2028", "\\u2029", "\\u202f", "\\u205f",
     "\\u3000"}

DigitChars == <<"0", "1", "2", "3", "4", "5", "6", "7", "8", "9">>

\* str(n) for an int n >= 0
RECURSIVE Str(_)
Str(n) ==
    IF n < 10 THEN <<DigitChars[n + 1]>>
    ELSE Str(n \div 10) \o <<DigitChars[(n % 10) + 1]>>

\* s.replace(old, new) for one-character old and new
Replace(s, old, new) ==
    [i \in 1..Len(s) |-> IF s[i] = old THEN new ELSE s[i]]

\* s.strip()
RECURSIVE LStrip(_)
LStrip(s) ==
    IF s # <<>> /\ Head(s) \in Whitespace THEN LStrip(Tail(s)) ELSE s

RECURSIVE RStrip(_)
RStrip(s) ==
    IF s # <<>> /\ s[Len(s)] \in Whitespace
    THEN RStrip(SubSeq(s, 1, Len(s) - 1))
    ELSE s

Strip(s) == RStrip(LStrip(s))

\* sep.join(parts)
RECURSIVE Join(_, _)
Join(sep, parts) ==
    IF parts = <<>> THEN <<>>
    ELSE IF Len(parts) = 1 THEN parts[1]
    ELSE parts[1] \o sep \o Join(sep, Tail(parts))

\* dict.get(key, default) on a metadata record
MetaGet(metadata, key, default) ==
    IF key \in DOMAIN metadata THEN metadata[key] ELSE default

S_doc     == <<"[", "d", "o", "c">>
S_source  == <<"[", "s", "o", "u", "r", "c", "e">>
S_unknown == <<"u", "n", "k", "n", "o", "w", "n">>
S_blank   == <<"\n", "\n">>

---------------------------------------------------------------------------
(* The corpus: what the external loaders and splitter put in the store.   *)
(* A source is the path of a file matched by *.pdf, *.docx or **/*.txt; a  *)
(* chunk may lack the key (metadata.get's default).                        *)

Contents ==
    << <<"a", "\n", "b">>,
       <<"c">>,
       <<"a", "\n", "\n", "b", " ", "c">>,
       <<"\n", "b">> >>

Metadatas ==
    << [source |-> <<"x", ".", "p", "d", "f">>, page |-> 0],
       [page |-> 1],
       [source |-> <<"m", "y", " ", "y", ".", "t", "x", "t">>, page |-> 0] >>

Chunk(i) ==
    [page_content |-> Contents[((i - 1) % Len(Contents)) + 1],
     metadata     |-> Metadatas[((i - 1) % Len(Metadatas)) + 1]]

Corpus == [i \in 1..NumChunks |-> Chunk(i)]

Stores == {SubSeq(Corpus, 1, n) : n \in 0..NumChunks}


---------------------------------------------------------------------------
(* External collaborators of the chat apps *)

K == 4   \* retriever.search_kwargs["k"]; also the default of as_retriever()

Questions == {"q1", "q2"}
Answers   == {"a1", "a2"}

Min(a, b) == IF a < b THEN a ELSE b

\* What the similarity search may return for a query: min(k, n) chunks of the
\* store in rank order.  The ranking is the vector backend's; the rank orders
\* taken here are the rotations of the store, cut to the first k.
Retrievals(st) ==
    LET n == Len(st)
        m == Min(K, n)
    IN  IF n = 0 THEN {<<>>}
        ELSE {[r \in 1..m |-> st[((first + r - 2) % n) + 1]] : first \in 1..n}

\* What the language model may answer to the condense-question prompt of
\* ConversationalRetrievalChain: the question unchanged, or a rephrasing.
Rephrasings(question) == {question, "rq"}

---------------------------------------------------------------------------
(* rag_chat_first.py *)

RECURSIVE context_formatting_from(_, _, _)
context_formatting_from(documents, index, content) ==
    IF index >= Len(documents) THEN content
    ELSE context_formatting_from(documents, index + 1,
            content \o S_doc \o Str(index + 1) \o <<"]", "=">>
                    \o Replace(documents[index + 1].page_content, "\n", " ")
                    \o S_blank)

context_formatting(documents) == context_formatting_from(documents, 0, <<>>)

RECURSIVE source_formatting_from(_, _, _)
source_formatting_from(documents, index, sources) ==
    IF index >= Len(documents) THEN sources
    ELSE source_formatting_from(documents, index + 1,
            sources \o S_doc \o Str(index + 1) \o <<"]", "=">>
                    \o MetaGet(documents[index + 1].metadata, "source", S_unknown)
                    \o S_blank)

\* a numbering that starts at 0
RECURSIVE source_formatting_zero_from(_, _, _)
source_formatting_zero_from(documents, index, sources) ==
    IF index >= Len(documents) THEN sources
    ELSE source_formatting_zero_from(documents, index + 1,
            sources \o S_doc \o Str(index) \o <<"]", "=">>
                    \o MetaGet(documents[index + 1].metadata, "source", S_unknown)
                    \o S_blank)

source_formatting_zero(documents) ==
    Strip(source_formatting_zero_from(documents, 0, <<>>))

source_formatting(documents) ==
    Strip(source_formatting_from(documents, 0, <<>>))

NoCall ==
    [kind |-> "none", ok |-> FALSE, session |-> 0, question |-> "", query |-> "",
     docs |-> <<>>, context |-> <<>>, chat_history |-> <<>>, prior |-> <<>>,
     sources |-> <<>>, answer |-> ""]

\* complete_rag(question), generate() returning the model's output
complete_rag(question) ==
    /\ mode = "first"
    /\ calls < MaxCalls
    /\ \E docs \in Retrievals(store), output \in Answers :
          last' = [NoCall EXCEPT !.kind = "first", !.ok = TRUE,
                                 !.question = question, !.query = question,
                                 !.docs = docs,
                                 !.context = context_formatting(docs),
                                 !.sources = source_formatting(docs),
                                 !.answer = output]
    /\ calls' = calls + 1
    /\ UNCHANGED <<mode, store, memory, state>>
    /\ UNCHANGED notChat

\* complete_rag(question), the call of the language model raising in generate():
\* the handler returns nothing, the output boxes are not written
complete_rag_raises(question) ==
    /\ mode = "first"
    /\ calls < MaxCalls
    /\ \E docs \in Retrievals(store) :
          last' = [NoCall EXCEPT !.kind = "first", !.ok = FALSE,
                                 !.question = question, !.query = question,
                                 !.docs = docs,
                                 !.context = context_formatting(docs)]
    /\ calls' = calls + 1
    /\ UNCHANGED <<mode, store, memory, state>>
    /\ UNCHANGED notChat

---------------------------------------------------------------------------
(* rag_chat_session.py *)

Sessions == 1..NumSessions

HumanMessage(content) == [type |-> "human", content |-> content]
AIMessage(content)    == [type |-> "ai", content |-> content]

\* ConversationBufferMemory.save_context, run by the chain after a call that
\* returned: the question as asked and the answer are appended
save_context(mem, question, answer) ==
    mem \o <<HumanMessage(question), AIMessage(answer)>>

\* The context the chain built by ConversationalRetrievalChain.from_llm puts in
\* the prompt: the page_content of the documents joined by a blank line (the
\* stuff chain's document prompt and separator are left at their defaults)
chain_context(documents) ==
    Join(S_blank, [n \in 1..Len(documents) |-> documents[n].page_content])

\* "\n\n".join(f"[source{idx+1}] {doc.metadata.get('source', 'unknown')}" ...)
formatted_sources(sources) ==
    Join(S_blank,
         [n \in 1..Len(sources) |->
             S_source \o Str((n - 1) + 1) \o <<"]", " ">>
                      \o MetaGet(sources[n].metadata, "source", S_unknown)])

\* only the answer is kept
history_append_answer_only(history, user_input, answer) ==
    history \o <<[role |-> "assistant", content |-> answer]>>

\* history.append(user) ; history.append(assistant)
history_append(history, user_input, answer) ==
    history \o <<[role |-> "user", content |-> user_input],
                 [role |-> "assistant", content |-> answer]>>

\* qa({"question": user_input}) up to the prompt of the answering call: the
\* chat history is read from the chain's memory; when it is not empty the
\* language model first condenses it and the question into the query
chain_prompt(s, user_input, new_question, docs) ==
    [NoCall EXCEPT !.kind = "session", !.session = s,
                   !.question = user_input, !.query = new_question,
                   !.docs = docs, !.context = chain_context(docs),
                   !.chat_history = memory, !.prior = state[s]]

chat_with_memory(s, user_input) ==
    /\ mode = "session"
    /\ calls < MaxCalls
    /\ \E new_question \in (IF memory = <<>> THEN {user_input}
                            ELSE Rephrasings(user_input)),
          docs \in Retrievals(store), answer \in Answers :
          /\ memory' = save_context(memory, user_input, answer)
          /\ state' = [state EXCEPT ![s] = history_append(@, user_input, answer)]
          /\ last' = [chain_prompt(s, user_input, new_question, docs) EXCEPT
                          !.ok = TRUE, !.answer = answer,
                          !.sources = formatted_sources(docs)]
    /\ calls' = calls + 1
    /\ UNCHANGED <<mode, store>>
    /\ UNCHANGED notChat

\* the answering call of the language model raises: qa() raises before the
\* memory is saved and before history is appended to
chat_with_memory_raises(s, user_input) ==
    /\ mode = "session"
    /\ calls < MaxCalls
    /\ \E new_question \in (IF memory = <<>> THEN {user_input}
                            ELSE Rephrasings(user_input)),
          docs \in Retrievals(store) :
          last' = chain_prompt(s, user_input, new_question, docs)
    /\ calls' = calls + 1
    /\ UNCHANGED <<mode, store, memory, state>>
    /\ UNCHANGED notChat

InitChat ==
    /\ mode \in {"first", "session"}
    /\ store \in Stores
    /\ memory = <<>>
    /\ state = [s \in Sessions |-> <<>>]
    /\ last = NoCall
    /\ calls = 0

IdleChat ==
    /\ mode = "first"
    /\ store = <<>>
    /\ memory = <<>>
    /\ state = [s \in Sessions |-> <<>>]
    /\ last = NoCall
    /\ calls = 0

NextChat ==
    \/ \E question \in Questions : complete_rag(question)
    \/ \E question \in Questions : complete_rag_raises(question)
    \/ \E s \in Sessions, user_input \in Questions : chat_with_memory(s, user_input)
    \/ \E s \in Sessions, user_input \in Questions :
          chat_with_memory_raises(s, user_input)

---------------------------------------------------------------------------
(* run_mpnet_tests.py: the sweep, lines 77-99 *)

NumModels    == 2   \* models of llms_to_test taken
NumQuestions == 2   \* questions of the list taken

embedding_model_name == "sentence-transformers/all-MiniLM-L6-v2"

LlmNames == <<"mistral:instruct", "llama3", "openhermes", "zephyr">>

llms_to_test == [i \in 1..NumModels |-> LlmNames[((i - 1) % Len(LlmNames)) + 1]]

QuestionTexts ==
    <<"How do i make a Rainbow?", "What currency do they have in Canada?">>

questions ==
    [j \in 1..NumQuestions |-> QuestionTexts[((j - 1) % Len(QuestionTexts)) + 1]]

\* time.time() in ticks of 1/1024 s: a reading is a float, and on multiples
\* of 1/1024 s both time.time() values and their difference are exact.  It
\* reads the system clock, which is not monotonic: a reading may be lower
\* than an earlier one when the clock was set back in between.
ClockReadings == {0, 128, 1024}

\* round(end_time - start_time, 2), in hundredths of a second, of a
\* difference of `ticks` ticks: round() gives the hundredth nearest to the
\* exact value of the float, and the even one when the float is exactly half
\* way (0.125 -> 0.12, 0.875 -> 0.88, -0.125 -> -0.12)
Round2(ticks) ==
    LET n == 25 * ticks        \* ticks / 1024 s = n / 256 hundredths
        q == n \div 256        \* floor, also for n < 0
        r == n % 256
    IN  IF r < 128 THEN q
        ELSE IF r > 128 THEN q + 1
        ELSE IF q % 2 = 0 THEN q ELSE q + 1

\* chain({"question": q}) of the chain built by build_chain: the query sent to
\* the retriever is the question when the chain's memory is empty, and else
\* what the chain's language model makes of the chat history and the question
chain_queries(mem, q) ==
    IF mem = <<>> THEN {q} ELSE Rephrasings(q)

\* for llm_name in llms_to_test: llm = ...; chain = build_chain(llm, retriever)
\* (a new ConversationBufferMemory per chain); or the loop's end
bench_next_model ==
    /\ bpc = "models"
    /\ IF bi < NumModels
       THEN /\ bi' = bi + 1
            /\ bj' = 1
            /\ chain_memory' = <<>>
            /\ bpc' = IF NumQuestions = 0 THEN "models" ELSE "questions"
       ELSE /\ bpc' = "save"
            /\ UNCHANGED <<bi, bj, chain_memory>>
    /\ UNCHANGED <<results, sent, emitted>>
    /\ UNCHANGED notBench

\* the body of "for q in questions", the chain returning
bench_cell ==
    /\ bpc = "questions"
    /\ \E start_time \in ClockReadings, end_time \in ClockReadings,
          query \in chain_queries(chain_memory, questions[bj]),
          answer \in Answers :
          LET q == questions[bj]
              elapsed == Round2(end_time - start_time)
          IN  /\ sent' = Append(sent, [model |-> bi, question |-> bj,
                                       query |-> query])
              /\ chain_memory' = save_context(chain_memory, q, answer)
              /\ results' = Append(results,
                     [Embeddingmodell |-> embedding_model_name,
                      LLM             |-> llms_to_test[bi],
                      Fraga           |-> q,
                      Modellens_Svar  |-> answer,
                      Svarstid        |-> elapsed])
    /\ bj' = bj + 1
    /\ bpc' = IF bj = NumQuestions THEN "models" ELSE "questions"
    /\ UNCHANGED <<bi, emitted>>
    /\ UNCHANGED notBench

\* the body of "for q in questions", the chain raising (the model server is
\* down, the response is malformed): nothing catches it, the script ends
bench_cell_raises ==
    /\ bpc = "questions"
    /\ bpc' = "crashed"
    /\ UNCHANGED <<bi, bj, chain_memory, results, sent, emitted>>
    /\ UNCHANGED notBench

\* df = pd.DataFrame(results); df.to_excel(output_file, index=False)
bench_save ==
    /\ bpc = "save"
    /\ emitted' = [written |-> TRUE, rows |-> results]
    /\ bpc' = "done"
    /\ UNCHANGED <<bi, bj, chain_memory, results, sent>>
    /\ UNCHANGED notBench

InitBench ==
    /\ bpc = "models"
    /\ bi = 0
    /\ bj = 1
    /\ chain_memory = <<>>
    /\ results = <<>>
    /\ sent = <<>>
    /\ emitted = [written |-> FALSE, rows |-> <<>>]

IdleBench == InitBench

NextBench ==
    \/ bench_next_model
    \/ bench_cell
    \/ bench_cell_raises
    \/ bench_save

---------------------------------------------------------------------------
(* The create-or-load of the vector store, as each script does it at its   *)
(* start.  Processes share the persist directory (../chroma_db) only.      *)

NumProcs    == 2   \* processes that may run at the same time
MaxStarts   == 3   \* program starts in all
StoreChunks == 2   \* chunks of the full chunk set

Procs   == 1..NumProcs
Scripts == {"first", "session", "bench"}

\* collection_name of each script
collection_name(script) ==
    IF script = "first" THEN "chromemwah" ELSE "rag_chat"

Collections == {collection_name(sc) : sc \in Scripts}

Off == [script |-> "first", pc |-> "off", added |-> 0,
        handle |-> [how |-> "none", collection |-> "", complete |-> FALSE]]

\* a script is started
start(p, script) ==
    /\ proc[p].pc = "off"
    /\ starts < MaxStarts
    /\ starts' = starts + 1
    /\ proc' = [proc EXCEPT ![p] = [Off EXCEPT !.script = script, !.pc = "check"]]
    /\ UNCHANGED <<fs, built>>
    /\ UNCHANGED notStore

\* if not os.path.isdir(db_directory) / if Path(path).exists() /
\* if not os.path.exists(db_path)
check_path(p) ==
    /\ proc[p].pc = "check"
    /\ proc' = [proc EXCEPT ![p].pc = IF fs.exists THEN "open" ELSE "create"]
    /\ UNCHANGED <<fs, built, starts>>
    /\ UNCHANGED notStore

\* Chroma.from_documents, first part: the client creates the persist
\* directory and the collection
create_collection(p) ==
    /\ proc[p].pc = "create"
    /\ fs' = [fs EXCEPT !.exists = TRUE,
                        !.collections = @ \cup {collection_name(proc[p].script)}]
    /\ proc' = [proc EXCEPT ![p].pc = "add"]
    /\ UNCHANGED <<built, starts>>
    /\ UNCHANGED notStore

\* Chroma.from_documents, the chunks embedded and written (under fresh ids:
\* what another builder wrote is not replaced)
add_chunk(p) ==
    /\ proc[p].pc = "add"
    /\ proc[p].added < StoreChunks
    /\ fs' = [fs EXCEPT !.chunks[collection_name(proc[p].script)] = @ + 1]
    /\ proc' = [proc EXCEPT ![p].added = @ + 1]
    /\ UNCHANGED <<built, starts>>
    /\ UNCHANGED notStore

\* Chroma.from_documents returns: rag_chat_first.py and rag_chat_session.py
\* take the retriever of the store just built, run_mpnet_tests.py goes on to
\* open the collection again
finish_build(p) ==
    /\ proc[p].pc = "add"
    /\ proc[p].added = StoreChunks
    /\ built' = built \cup {collection_name(proc[p].script)}
    /\ proc' = [proc EXCEPT ![p] =
          IF proc[p].script = "bench"
          THEN [@ EXCEPT !.pc = "open"]
          ELSE [@ EXCEPT !.pc = "serving",
                         !.handle = [how |-> "built",
                                     collection |-> collection_name(proc[p].script),
                                     complete |-> TRUE]]]
    /\ UNCHANGED <<fs, starts>>
    /\ UNCHANGED notStore

\* the process ends during the build (interrupted, out of memory, the embedder
\* or a write raising): what it wrote stays
interrupt_build(p) ==
    /\ proc[p].pc = "add"
    /\ proc' = [proc EXCEPT ![p] = Off]
    /\ UNCHANGED <<fs, built, starts>>
    /\ UNCHANGED notStore

\* the script ends by an exception before Chroma has written anything:
\*   at the path test   HuggingFaceEmbeddings raising (first:98, session:71),
\*                      and in rag_chat_session.py prepare_documents, the
\*                      argument evaluated before init_or_load_vectorstore
\*                      tests the path (session:76)
\*   on the build path  chunking / prepare_documents or HuggingFaceEmbeddings
\*                      raising after the test (first:105, bench:65-66)
\*   on the load path   Chroma(...) raising (first:52, session:29, bench:71)
\* The process is gone and the persist directory is as it was.
start_raises(p) ==
    /\ proc[p].pc \in {"check", "create", "open"}
    /\ proc' = [proc EXCEPT ![p] = Off]
    /\ UNCHANGED <<fs, built, starts>>
    /\ UNCHANGED notStore

\* Chroma(collection_name=..., persist_directory=...): the collection is
\* opened, and created empty when the directory does not hold it
open_collection(p) ==
    /\ proc[p].pc = "open"
    /\ LET c == collection_name(proc[p].script)
       IN  /\ fs' = [fs EXCEPT !.exists = TRUE, !.collections = @ \cup {c}]
           /\ proc' = [proc EXCEPT ![p].pc = "serving",
                  ![p].handle = [how |-> IF proc[p].added = StoreChunks
                                         THEN "built" ELSE "loaded",
                                 collection |-> c,
                                 complete |-> c \in built]]
    /\ UNCHANGED <<built, starts>>
    /\ UNCHANGED notStore

\* the app is closed, the sweep has ended
stop(p) ==
    /\ proc[p].pc = "serving"
    /\ proc' = [proc EXCEPT ![p] = Off]
    /\ UNCHANGED <<fs, built, starts>>
    /\ UNCHANGED notStore

InitStore ==
    /\ fs = [exists |-> FALSE, collections |-> {},
             chunks |-> [c \in Collections |-> 0]]
    /\ built = {}
    /\ proc = [p \in Procs |-> Off]
    /\ starts = 0

IdleStore == InitStore

NextStore ==
    \/ \E p \in Procs, script \in Scripts : start(p, script)
    \/ \E p \in Procs : check_path(p)
    \/ \E p \in Procs : create_collection(p)
    \/ \E p \in Procs : add_chunk(p)
    \/ \E p \in Procs : finish_build(p)
    \/ \E p \in Procs : interrupt_build(p)
    \/ \E p \in Procs : start_raises(p)
    \/ \E p \in Procs : open_collection(p)
    \/ \E p \in Procs : stop(p)

---------------------------------------------------------------------------
(* chunking(data_directory) of rag_chat_first.py; prepare_documents of     *)
(* rag_chat_session.py has the same three loops and the same split.        *)
(* prepare_documents of run_mpnet_tests.py has one loop over               *)
(* os.listdir(folder) that loads the .pdf and the .docx files as they      *)
(* come, then the same load of the .txt files and the same split.          *)

NumFiles == 3   \* files of the docs folder

Extensions == {"pdf", "docx", "txt"}

\* A file of the folder: its number stands for its path; a file that is not
\* readable is one whose loader raises (malformed, unreadable)
Files == [id : 1..NumFiles, ext : Extensions, readable : BOOLEAN]

Folders ==
    {f \in [1..NumFiles -> Files] : \A n \in 1..NumFiles : f[n].id = n}

\* loader.load() of a readable file: PyPDFLoader gives a Document per page (two
\* pages here), the other loaders one Document
load(file) ==
    IF file.ext = "pdf"
    THEN <<[source |-> file.id, page |-> 0], [source |-> file.id, page |-> 1]>>
    ELSE <<[source |-> file.id, page |-> 0]>>

\* splitter.split_documents(docs): every Document gives its chunks, in order,
\* each with the Document's metadata (two chunks a Document here)
RECURSIVE split_documents(_)
split_documents(docs) ==
    IF docs = <<>> THEN <<>>
    ELSE <<[metadata |-> Head(docs), sequence_index |-> 0],
           [metadata |-> Head(docs), sequence_index |-> 1]>>
         \o split_documents(Tail(docs))

\* the loops in the order of the code: of chunking (rag_chat_first.py; the
\* same in prepare_documents of rag_chat_session.py) and of prepare_documents
\* of run_mpnet_tests.py
Functions == {"chunking", "prepare_documents"}

Phases(fn) ==
    IF fn = "chunking" THEN <<"pdf", "docx", "txt">> ELSE <<"listdir", "txt">>

PhaseOf(fn, pc) == CHOOSE n \in 1..Len(Phases(fn)) : Phases(fn)[n] = pc

InLoop == cpc \in {"pdf", "docx", "txt", "listdir"}

\* whether the loop loads the file: the glob's pattern, or in the listdir loop
\* file.endswith(".pdf") / file.endswith(".docx")
Matches(pc, file) ==
    IF pc = "listdir" THEN file.ext \in {"pdf", "docx"} ELSE file.ext = pc

\* a file the loop does not load
skip_file ==
    /\ InLoop
    /\ cidx <= Len(files)
    /\ ~Matches(cpc, files[cidx])
    /\ cidx' = cidx + 1
    /\ UNCHANGED <<files, cfn, cpc, cdocs, csplits>>
    /\ UNCHANGED notChunk

\* docs.extend(loader.load()) of a file the loop loads
load_file ==
    /\ InLoop
    /\ cidx <= Len(files)
    /\ Matches(cpc, files[cidx])
    /\ files[cidx].readable
    /\ cdocs' = cdocs \o load(files[cidx])
    /\ cidx' = cidx + 1
    /\ UNCHANGED <<files, cfn, cpc, csplits>>
    /\ UNCHANGED notChunk

\* loader.load() raises: nothing in the function catches it (DirectoryLoader
\* is built with its default silent_errors=False), the call ends by the
\* exception
load_raises ==
    /\ InLoop
    /\ cidx <= Len(files)
    /\ Matches(cpc, files[cidx])
    /\ ~files[cidx].readable
    /\ cpc' = "raised"
    /\ UNCHANGED <<files, cfn, cidx, cdocs, csplits>>
    /\ UNCHANGED notChunk

\* the loop has seen every file: on to the next loop, or to the splitter
next_loop ==
    /\ InLoop
    /\ cidx > Len(files)
    /\ cpc' = IF PhaseOf(cfn, cpc) < Len(Phases(cfn))
              THEN Phases(cfn)[PhaseOf(cfn, cpc) + 1]
              ELSE "split"
    /\ cidx' = 1
    /\ UNCHANGED <<files, cfn, cdocs, csplits>>
    /\ UNCHANGED notChunk

\* splits = splitter.split_documents(docs); return splits
split_and_return ==
    /\ cpc = "split"
    /\ csplits' = split_documents(cdocs)
    /\ cpc' = "returned"
    /\ UNCHANGED <<files, cfn, cidx, cdocs>>
    /\ UNCHANGED notChunk

InitChunk ==
    /\ files \in Folders
    /\ cfn \in Functions
    /\ cpc = Phases(cfn)[1]
    /\ cidx = 1
    /\ cdocs = <<>>
    /\ csplits = <<>>

IdleChunk ==
    /\ files = <<>>
    /\ cfn = "chunking"
    /\ cpc = "idle"
    /\ cidx = 1
    /\ cdocs = <<>>
    /\ csplits = <<>>

NextChunk ==
    \/ skip_file
    \/ load_file
    \/ load_raises
    \/ next_loop
    \/ split_and_return

---------------------------------------------------------------------------
(* The specifications *)

InitChatSpec  == InitChat /\ IdleBench /\ IdleStore /\ IdleChunk
InitBenchSpec == IdleChat /\ InitBench /\ IdleStore /\ IdleChunk
InitStoreSpec == IdleChat /\ IdleBench /\ InitStore /\ IdleChunk
InitChunkSpec == IdleChat /\ IdleBench /\ IdleStore /\ InitChunk

SpecChat  == InitChatSpec /\ [][NextChat]_vars
SpecBench == InitBenchSpec /\ [][NextBench]_vars
SpecStore == InitStoreSpec /\ [][NextStore]_vars
SpecChunk == InitChunkSpec /\ [][NextChunk]_vars

---------------------------------------------------------------------------
(* Reading the formatted texts back: what a reader of the context and of   *)
(* the references sees.  None of these is used by the model of the code.   *)

\* the blocks of a text, a blank line ("\n\n") between two blocks
RECURSIVE BlocksFrom(_, _, _)
BlocksFrom(s, i, cur) ==
    IF i > Len(s) THEN <<cur>>
    ELSE IF i < Len(s) /\ s[i] = "\n" /\ s[i + 1] = "\n"
         THEN <<cur>> \o BlocksFrom(s, i + 2, <<>>)
         ELSE BlocksFrom(s, i + 1, Append(cur, s[i]))

Blocks(s) == IF s = <<>> THEN <<>> ELSE BlocksFrom(s, 1, <<>>)

\* the blocks without the empty one a closing blank line leaves
DropLastEmpty(bs) ==
    IF bs # <<>> /\ bs[Len(bs)] = <<>> THEN SubSeq(bs, 1, Len(bs) - 1) ELSE bs

HasPrefix(s, pre) == Len(s) >= Len(pre) /\ SubSeq(s, 1, Len(pre)) = pre

\* the number a string of decimal digits writes, -1 when it is not one
RECURSIVE ParseInt(_)
ParseInt(ds) ==
    IF ds = <<>> THEN -1
    ELSE LET c == ds[Len(ds)]
             d == IF \E v \in 0..9 : DigitChars[v + 1] = c
                  THEN CHOOSE v \in 0..9 : DigitChars[v + 1] = c
                  ELSE -1
         IN  IF d = -1 THEN -1
             ELSE IF Len(ds) = 1 THEN d
             ELSE LET hi == ParseInt(SubSeq(ds, 1, Len(ds) - 1))
                  IN  IF hi = -1 THEN -1 ELSE 10 * hi + d

\* position of the first "]" of a block, 0 when there is none
ClosePos(block) ==
    IF \E i \in 1..Len(block) : block[i] = "]"
    THEN CHOOSE i \in 1..Len(block) :
            block[i] = "]" /\ \A k \in 1..(i - 1) : block[k] # "]"
    ELSE 0

\* a block "[<tag><N>]<one separator character><text>" read as (N, text);
\* N is -1 when the block does not start with such a tag
ReadTagged(block, tag) ==
    LET close == ClosePos(block)
    IN  IF HasPrefix(block, tag) /\ close > Len(tag) /\ close < Len(block)
        THEN [key  |-> ParseInt(SubSeq(block, Len(tag) + 1, close - 1)),
              text |-> SubSeq(block, close + 2, Len(block))]
        ELSE [key |-> -1, text |-> block]

TagOf(kind) == IF kind = "first" THEN S_doc ELSE S_source

\* the Citation Mapping shown to the user, as the sequence of its entries
CitationEntries(call) ==
    LET bs == Blocks(call.sources)
    IN  [n \in 1..Len(bs) |-> ReadTagged(bs[n], TagOf(call.kind))]

\* the blocks of the context handed to the language model
ContextEntries(call) ==
    LET bs == DropLastEmpty(Blocks(call.context))
    IN  [n \in 1..Len(bs) |-> ReadTagged(bs[n], TagOf(call.kind))]

\* the messages of a chat history as the role/content entries of gr.State
Transcript(msgs) ==
    [n \in 1..Len(msgs) |->
        [role    |-> IF msgs[n].type = "human" THEN "user" ELSE "assistant",
         content |-> msgs[n].content]]

\* the turns of a message list: a question with its answer each
Turns(history) ==
    [t \in 1..(Len(history) \div 2) |->
        [question |-> history[2 * t - 1].content,
         answer   |-> history[2 * t].content]]

WellFormed(history) ==
    /\ Len(history) % 2 = 0
    /\ \A n \in 1..Len(history) :
          history[n].role = IF n % 2 = 1 THEN "user" ELSE "assistant"

---------------------------------------------------------------------------
(* The claims *)

\* C1: the chat history in the prompt of a turn of a session is made of the
\* earlier turns of that session only (the messages of its own gr.State list),
\* whatever the other sessions asked in between.
C1_SessionIsolation ==
    last.kind = "session" => Transcript(last.chat_history) = last.prior

\* C2: after every answered call, in both apps and whatever was asked before,
\* the Citation Mapping made from n retrieved chunks has exactly n entries and
\* their keys are 1, 2, ..., n in this order.
C2_CitationKeys ==
    (last.kind # "none" /\ last.ok) =>
        LET entries == CitationEntries(last)
        IN  /\ Len(entries) = Len(last.docs)
            /\ \A n \in 1..Len(entries) : entries[n].key = n

\* a later call of the session app that retrieved three chunks
C2_Witness ==
    /\ mode = "session"
    /\ calls >= 2
    /\ last.ok
    /\ Len(last.docs) >= 3
    /\ Len(CitationEntries(last)) >= 3

\* C3: every chat_with_memory call that returns adds exactly one turn, the
\* question with its answer, at the end of the session's message list and leaves
\* the turns that were there as they were; the lists of the other sessions do
\* not change.
C3_AppendOneTurn ==
    [][(calls' = calls + 1 /\ last'.kind = "session" /\ last'.ok) =>
          LET s == last'.session
          IN  /\ WellFormed(state'[s])
              /\ Turns(state'[s]) =
                    Append(Turns(state[s]),
                           [question |-> last'.question, answer |-> last'.answer])
              /\ SubSeq(state'[s], 1, Len(state[s])) = state[s]
              /\ \A o \in Sessions \ {s} : state'[o] = state[o]]_vars

\* a session that has asked twice, its second turn differing from its first
C3_Witness ==
    \E s \in Sessions :
        /\ Len(Turns(state[s])) >= 2
        /\ Turns(state[s])[1] # Turns(state[s])[2]

\* C9: in both apps the context has one block per retrieved chunk, in rank
\* order, block N starts with the tag N of the app ([docN] or [sourceN]), and
\* entry N of the Citation Mapping names the source of that chunk ("unknown"
\* when it has none).
C9_TagsMatchCitations ==
    last.kind # "none" =>
        LET blocks == ContextEntries(last)
            cites  == CitationEntries(last)
            n      == Len(last.docs)
        IN  /\ Len(blocks) = n
            /\ \A N \in 1..Len(blocks) : blocks[N].key = N
            /\ last.ok =>
                  /\ Len(cites) = n
                  /\ \A N \in 1..Len(cites) :
                        /\ cites[N].key = N
                        /\ N <= n =>
                              cites[N].text =
                                 MetaGet(last.docs[N].metadata, "source", S_unknown)

\* C4: when the call of a cell has failed, the sweep goes on (the script can
\* take a next step), and once it has ended the output holds the results of the
\* cells that completed.
C4_FailedCellKeepsSweep ==
    bpc = "crashed" =>
        \/ ENABLED NextBench
        \/ (emitted.written /\ emitted.rows = results)

\* C5: a sweep that has ended has produced NumModels x NumQuestions results,
\* result (i-1)*NumQuestions + j being the one of model i and question j, each
\* with a latency of at least 0.
C5_ResultsComplete ==
    bpc = "done" =>
        /\ Len(emitted.rows) = NumModels * NumQuestions
        /\ \A i \in 1..NumModels, j \in 1..NumQuestions :
              LET row == emitted.rows[(i - 1) * NumQuestions + j]
              IN  /\ row.LLM = llms_to_test[i]
                  /\ row.Fraga = questions[j]
                  /\ row.Svarstid >= 0

\* C10: the query sent to the shared retriever for question j is the same in
\* every cell of question j, whatever the model and what it answered before.
C10_SameQueryForAllModels ==
    \A a, b \in 1..Len(sent) :
        sent[a].question = sent[b].question => sent[a].query = sent[b].query

\* C6: at most one process is on the build path at any time, and two builders
\* never write the persist directory at the same time.
C6_OneBuilder ==
    /\ Cardinality({p \in Procs : proc[p].pc \in {"create", "add"}}) <= 1
    /\ Cardinality({p \in Procs : proc[p].pc = "add"}) <= 1

\* C8: every handle handed to a retriever is of a store built in that start
\* from the full chunk set, or reopens a collection that an earlier start had
\* completely built.
C8_HandleOnCompleteStore ==
    \A p \in Procs :
        proc[p].pc = "serving" =>
            \/ proc[p].handle.how = "built"
            \/ proc[p].handle.complete

\* C7: the chunking call (chunking, and prepare_documents alike) never ends by
\* the exception of one document's loader, and it returns the chunks of every
\* document that could be loaded.
C7_ChunkingSkipsFailedDocument ==
    /\ cpc # "raised"
    /\ cpc = "returned" =>
          \A n \in 1..Len(files) :
              files[n].readable =>
                  \E k \in 1..Len(csplits) : csplits[k].metadata.source = n
=============================================================================
